---- MODULE Spec2Model ----
(***************************************************************************)
(* Model of the Mini Content Agency demo (examples/demo_company):          *)
(* roles.py, workflow.py, simple_ui.py and huggingface_space/app.py.       *)
(*                                                                         *)
(* Python strings built by f-strings are modelled as sequences of parts    *)
(* (literal pieces and interpolated values); objects are records; the      *)
(* value None of a string-typed argument is the sentinel None, and None    *)
(* for numbers, lists and objects is a record with isNone = TRUE.          *)
(* The external libraries (HuggingFaceEndpoint, crewai) are inputs: their  *)
(* constructors and Crew.kickoff either return or raise.  The handlers     *)
(* hold no lock, so a handler may start while others wait in kickoff.      *)
(* The emoji that open the status strings are written "X" and "OK".        *)
(***************************************************************************)
EXTENDS Integers, Sequences, FiniteSets, Bags, TLC

VARIABLES ui, environ, agency, nInit, initRet, lastGood, call, waiting

vars == <<ui, environ, agency, nInit, initRet, lastGood, call, waiting>>

(* ---------------- bounds ---------------- *)
MaxInits == 2
\* handler calls inside crew.kickoff() at the same time
MaxActive == 2

(* ---------------- Python values ---------------- *)
None == "<None>"
NoneObj == [isNone |-> TRUE]

\* truthiness of a str-or-None value: None and "" are falsy
Truthy(s) == s # None /\ s # ""

\* a or b  on str-or-None values
Or(a, b) == IF Truthy(a) THEN a ELSE b

\* str(x) inside an f-string
Str(x) == IF x = None THEN "None" ELSE x

\* substring test on a string modelled as a sequence of parts
Contains(s, part) == \E i \in 1..Len(s) : s[i] = part

RECURSIVE SeqToSet(_)
SeqToSet(s) == IF s = <<>> THEN {} ELSE {Head(s)} \cup SeqToSet(Tail(s))

(* ---------------- roles.py / app.py : CompanyRoles ---------------- *)
Agent(role, llm, allow_delegation) ==
    [role |-> role, llm |-> llm, allow_delegation |-> allow_delegation]

research_analyst(llm) == Agent("Research Analyst", llm, FALSE)
content_writer(llm) == Agent("Content Writer", llm, FALSE)
seo_specialist(llm) == Agent("SEO Specialist", llm, FALSE)
\* social_media_manager created with the writer's role string
social_media_manager_miscast(llm) == Agent("Content Writer", llm, FALSE)
social_media_manager(llm) == Agent("Social Media Manager", llm, FALSE)
qa_checker(llm) == Agent("QA Checker", llm, FALSE)

\* app.py CompanyRoles: its own copy of the five factories
app_research_analyst(llm) == Agent("Research Analyst", llm, FALSE)
app_content_writer(llm) == Agent("Content Writer", llm, FALSE)
app_seo_specialist(llm) == Agent("SEO Specialist", llm, FALSE)
\* app.py social_media_manager left with the library's default, delegation allowed
app_social_media_manager_delegating(llm) == Agent("Social Media Manager", llm, TRUE)
app_social_media_manager(llm) == Agent("Social Media Manager", llm, FALSE)
app_qa_checker(llm) == Agent("QA Checker", llm, FALSE)

\* roles.ROLE_HIERARCHY: delegates_to of each role
ROLE_HIERARCHY ==
    [research_analyst |->
        [level |-> 1, reports_to |-> "human_ceo", delegates_to |-> <<>>],
     content_writer |->
        [level |-> 2, reports_to |-> "human_editor",
         delegates_to |-> <<"research_analyst">>],
     seo_specialist |->
        [level |-> 2, reports_to |-> "human_editor",
         delegates_to |-> <<"content_writer">>],
     social_media_manager |->
        [level |-> 2, reports_to |-> "human_editor",
         delegates_to |-> <<"content_writer">>],
     qa_checker |->
        [level |-> 3, reports_to |-> "human_editor", delegates_to |-> <<>>]]

\* roles.WORKFLOWS names the factories; each factory fixes the role string
RoleOfFactory ==
    [f \in {"research_analyst", "content_writer", "seo_specialist",
            "social_media_manager", "qa_checker"} |->
        CASE f = "research_analyst" -> research_analyst(NoneObj).role
          [] f = "content_writer" -> content_writer(NoneObj).role
          [] f = "seo_specialist" -> seo_specialist(NoneObj).role
          [] f = "social_media_manager" -> social_media_manager(NoneObj).role
          [] OTHER -> qa_checker(NoneObj).role]

WORKFLOWS ==
    [article_creation |->
        <<"research_analyst", "content_writer", "seo_specialist", "qa_checker">>,
     social_media_campaign |->
        <<"research_analyst", "social_media_manager", "qa_checker">>,
     content_optimization |->
        <<"seo_specialist", "content_writer", "qa_checker">>]

(* ---------------- workflow.py : ContentAgency ---------------- *)
\* ContentAgency whose social media manager is created without the llm
ContentAgency_unbound(llm) ==
    [isNone |-> FALSE,
     llm |-> llm,
     researcher |-> research_analyst(llm),
     writer |-> content_writer(llm),
     seo |-> seo_specialist(llm),
     social |-> social_media_manager(NoneObj),
     qa |-> qa_checker(llm)]

ContentAgency(llm) ==
    [isNone |-> FALSE,
     llm |-> llm,
     researcher |-> research_analyst(llm),
     writer |-> content_writer(llm),
     seo |-> seo_specialist(llm),
     social |-> social_media_manager(llm),
     qa |-> qa_checker(llm)]

\* app.py ContentAgency.__init__
app_ContentAgency(llm) ==
    [isNone |-> FALSE,
     llm |-> llm,
     researcher |-> app_research_analyst(llm),
     writer |-> app_content_writer(llm),
     seo |-> app_seo_specialist(llm),
     social |-> app_social_media_manager(llm),
     qa |-> app_qa_checker(llm)]

\* outcome of an expression: a value, or a raised exception with its message
Value(v) == [raised |-> None, value |-> v]
Raise(msg) == [raised |-> msg, value |-> NoneObj]

\* Task(...) and Crew(...) are constructors of the external library: each
\* returns its object or raises, an Exception or an exception that is not one
TaskError == "Task: validation error"
TaskInterrupt == "Task: interrupted"
CrewError == "Crew: validation error"
CrewInterrupt == "Crew: interrupted"

\* the object a Task(...) call returns
Task(description, expected_output, agent, context) ==
    [description |-> description, expected_output |-> expected_output,
     agent |-> agent, context |-> context]

\* the exception raised by a Task(...) call of a workflow method when lib says
\* one raises (None when every call returns); the method ends there
TaskRaised(lib) ==
    CASE lib = "task" -> TaskError
      [] lib = "task_base" -> TaskInterrupt
      [] OTHER -> None

\* Crew(agents=..., tasks=..., verbose=2): a crew on which no pass has been
\* started, or the exception the constructor raises
Crew(agents, tasks, lib) ==
    IF lib = "crew" THEN Raise(CrewError)
    ELSE IF lib = "crew_base" THEN Raise(CrewInterrupt)
    ELSE Value([agents |-> agents, tasks |-> tasks, kickoffs |-> 0])

\* crew.kickoff(): one execution pass is started on the crew
kickoff(crew) == [crew EXCEPT !.kickoffs = @ + 1]

\* the rest of a workflow method once its tasks are written down: nothing of
\* it runs when a Task(...) call raised, crew.kickoff() is not reached when
\* Crew(...) raised, and otherwise one pass is started on the crew
Run(crew, lib) ==
    IF TaskRaised(lib) # None THEN Raise(TaskRaised(lib))
    ELSE IF crew.raised # None THEN Raise(crew.raised)
    ELSE Value(kickoff(crew.value))

\* a Python list (or None where NoneObj is passed instead)
PyList(items) == [isNone |-> FALSE, items |-> items]

\* a Python str the model looks inside: a sequence of tokens (or NoneObj)
Text(items) == [isNone |-> FALSE, items |-> items]

\* str(x) inside an f-string, for a Text or None
StrText(x) == IF x.isNone THEN <<"None">> ELSE x.items

\* ', '.join(platforms): platform strings are sequences of tokens, the
\* separator is the two tokens "," and " "
RECURSIVE Join(_)
Join(platforms) ==
    IF platforms = <<>> THEN <<>>
    ELSE IF Len(platforms) = 1 THEN Head(platforms)
    ELSE Head(platforms) \o <<",", " ">> \o Join(Tail(platforms))

\* create_article with the QA review given the SEO task alone as context
create_article_linear(self, topic, target_audience, word_count, lib) ==
    LET research_task == Task(
            <<"Research the topic: ", Str(topic),
              " Requirements: ... Target audience: ", Str(target_audience)>>,
            <<"A comprehensive research summary with key findings and sources">>,
            self.researcher, <<>>)
        writing_task == Task(
            <<"Write a ", ToString(word_count), "-word article about: ", Str(topic),
              " Requirements: ... Target audience: ", Str(target_audience)>>,
            <<"A well-structured ", ToString(word_count), "-word article">>,
            self.writer, <<research_task>>)
        seo_task == Task(
            <<"Optimize the article for SEO">>,
            <<"SEO recommendations and optimized version">>,
            self.seo, <<writing_task>>)
        qa_task == Task(
            <<"Review the article for quality">>,
            <<"Quality assessment report and final version">>,
            self.qa, <<seo_task>>)
        crew == Crew(<<self.researcher, self.writer, self.seo, self.qa>>,
                     <<research_task, writing_task, seo_task, qa_task>>, lib)
    IN Run(crew, lib)

\* workflow.py create_article: the four tasks, the crew, and crew.kickoff()
create_article(self, topic, target_audience, word_count, lib) ==
    LET research_task == Task(
            <<"Research the topic: ", Str(topic),
              " Requirements: ... Target audience: ", Str(target_audience)>>,
            <<"A comprehensive research summary with key findings and sources">>,
            self.researcher, <<>>)
        writing_task == Task(
            <<"Write a ", ToString(word_count), "-word article about: ", Str(topic),
              " Requirements: ... Target audience: ", Str(target_audience)>>,
            <<"A well-structured ", ToString(word_count), "-word article">>,
            self.writer, <<research_task>>)
        seo_task == Task(
            <<"Optimize the article for SEO">>,
            <<"SEO recommendations and optimized version">>,
            self.seo, <<writing_task>>)
        qa_task == Task(
            <<"Review the article for quality">>,
            <<"Quality assessment report and final version">>,
            self.qa, <<writing_task, seo_task>>)
        crew == Crew(<<self.researcher, self.writer, self.seo, self.qa>>,
                     <<research_task, writing_task, seo_task, qa_task>>, lib)
    IN Run(crew, lib)

\* create_article returning the topic and the audience under each other's key
create_article_return_swapped(result, topic, target_audience, word_count) ==
    [article |-> result, topic |-> target_audience, audience |-> topic,
     word_count |-> word_count]

\* workflow.py create_article: the returned dictionary
create_article_return(result, topic, target_audience, word_count) ==
    [article |-> result, topic |-> topic, audience |-> target_audience,
     word_count |-> word_count]

DefaultPlatforms == <<<<"twitter">>, <<"linkedin">>, <<"facebook">>>>

\* workflow.py create_social_campaign: platforms default, tasks, crew, kickoff
social_platforms(platforms) ==
    IF platforms.isNone THEN DefaultPlatforms ELSE platforms.items

\* create_social_campaign with one posting task per platform
create_social_campaign_per_platform(self, topic, platforms0, lib) ==
    LET platforms == social_platforms(platforms0)
        research_task == Task(
            <<"Research the topic: ", Str(topic)>>,
            <<"Social media research summary">>,
            self.researcher, <<>>)
        social_task(i) == Task(
            <<"Create social media posts about: ", Str(topic),
              " Create posts for: ">> \o platforms[i],
            <<"Social media posts for ", "1", " platforms">>,
            self.social, <<research_task>>)
        social_tasks == [i \in 1..Len(platforms) |-> social_task(i)]
        qa_task == Task(
            <<"Review social posts">>,
            <<"Reviewed and approved social posts">>,
            self.qa, social_tasks)
        crew == Crew(<<self.researcher, self.social, self.qa>>,
                     <<research_task>> \o social_tasks \o <<qa_task>>, lib)
    IN Run(crew, lib)

create_social_campaign(self, topic, platforms0, lib) ==
    LET platforms == social_platforms(platforms0)
        research_task == Task(
            <<"Research the topic: ", Str(topic)>>,
            <<"Social media research summary">>,
            self.researcher, <<>>)
        social_task == Task(
            <<"Create social media posts about: ", Str(topic),
              " Create posts for: ">> \o Join(platforms),
            <<"Social media posts for ", ToString(Len(platforms)), " platforms">>,
            self.social, <<research_task>>)
        qa_task == Task(
            <<"Review social posts">>,
            <<"Reviewed and approved social posts">>,
            self.qa, <<social_task>>)
        crew == Crew(<<self.researcher, self.social, self.qa>>,
                     <<research_task, social_task, qa_task>>, lib)
    IN Run(crew, lib)

create_social_campaign_return(result, topic, platforms0) ==
    [posts |-> result, topic |-> topic, platforms |-> social_platforms(platforms0)]

\* optimize_content with the rewrite listed before the SEO analysis it reads
optimize_content_reordered(self, existing_content, lib) ==
    LET seo_task == Task(
            <<"Analyze and optimize this content: ">> \o StrText(existing_content),
            <<"SEO analysis and optimization plan">>,
            self.seo, <<>>)
        writing_task == Task(
            <<"Rewrite the content based on SEO recommendations">>,
            <<"Optimized content version">>,
            self.writer, <<seo_task>>)
        qa_task == Task(
            <<"Compare original and optimized versions">>,
            <<"Final optimized content with comparison">>,
            self.qa, <<writing_task>>)
        crew == Crew(<<self.seo, self.writer, self.qa>>,
                     <<writing_task, seo_task, qa_task>>, lib)
    IN Run(crew, lib)

\* workflow.py optimize_content
optimize_content(self, existing_content, lib) ==
    LET seo_task == Task(
            <<"Analyze and optimize this content: ">> \o StrText(existing_content),
            <<"SEO analysis and optimization plan">>,
            self.seo, <<>>)
        writing_task == Task(
            <<"Rewrite the content based on SEO recommendations">>,
            <<"Optimized content version">>,
            self.writer, <<seo_task>>)
        qa_task == Task(
            <<"Compare original and optimized versions">>,
            <<"Final optimized content with comparison">>,
            self.qa, <<writing_task>>)
        crew == Crew(<<self.seo, self.writer, self.qa>>,
                     <<seo_task, writing_task, qa_task>>, lib)
    IN Run(crew, lib)

optimize_content_return(result, existing_content) ==
    [optimized_content |-> result, original_content |-> existing_content]

\* workflow.py WORKFLOW_TEMPLATES[...]['agents']
WORKFLOW_TEMPLATES ==
    [create_article |->
        <<"Research Analyst", "Content Writer", "SEO Specialist", "QA Checker">>,
     create_social_campaign |->
        <<"Research Analyst", "Social Media Manager", "QA Checker">>,
     optimize_content |->
        <<"SEO Specialist", "Content Writer", "QA Checker">>]

(* ---------------- huggingface_space/app.py : ContentAgency ---------------- *)
\* app.py carries its own copy of the class (no optimize_content)
app_create_article(self, topic, target_audience, word_count, lib) ==
    LET research_task == Task(
            <<"Research the topic: ", Str(topic),
              " Requirements: ... Target audience: ", Str(target_audience)>>,
            <<"A comprehensive research summary with key findings and sources">>,
            self.researcher, <<>>)
        writing_task == Task(
            <<"Write a ", ToString(word_count), "-word article about: ", Str(topic),
              " Requirements: ... Target audience: ", Str(target_audience)>>,
            <<"A well-structured ", ToString(word_count), "-word article">>,
            self.writer, <<research_task>>)
        seo_task == Task(
            <<"Optimize the article for SEO">>,
            <<"SEO recommendations and optimized version">>,
            self.seo, <<writing_task>>)
        qa_task == Task(
            <<"Review the article for quality">>,
            <<"Quality assessment report and final version">>,
            self.qa, <<writing_task, seo_task>>)
        crew == Crew(<<self.researcher, self.writer, self.seo, self.qa>>,
                     <<research_task, writing_task, seo_task, qa_task>>, lib)
    IN Run(crew, lib)

app_create_social_campaign(self, topic, platforms0, lib) ==
    LET platforms == social_platforms(platforms0)
        research_task == Task(
            <<"Research the topic: ", Str(topic)>>,
            <<"Social media research summary">>,
            self.researcher, <<>>)
        social_task == Task(
            <<"Create social media posts about: ", Str(topic),
              " Create posts for: ">> \o Join(platforms),
            <<"Social media posts for ", ToString(Len(platforms)), " platforms">>,
            self.social, <<research_task>>)
        qa_task == Task(
            <<"Review social posts">>,
            <<"Reviewed and approved social posts">>,
            self.qa, <<social_task>>)
        crew == Crew(<<self.researcher, self.social, self.qa>>,
                     <<research_task, social_task, qa_task>>, lib)
    IN Run(crew, lib)

(* ---------------- simple_ui.py / app.py : configuration ---------------- *)
DEFAULT_MODEL == "Qwen/Qwen2.5-7B-Instruct"

\* dict.get(model_name, DEFAULT_MODEL) on simple_ui.AVAILABLE_MODELS
AVAILABLE_MODELS_get(model_name) ==
    CASE model_name = "Qwen2.5-3B (Fast, 8GB RAM)" -> "Qwen/Qwen2.5-3B-Instruct"
      [] model_name = "Qwen2.5-7B (Recommended)" -> "Qwen/Qwen2.5-7B-Instruct"
      [] model_name = "Qwen2.5-14B (High Quality)" -> "Qwen/Qwen2.5-14B-Instruct"
      [] model_name = "Qwen2.5-Coder-32B (Best Quality)" ->
            "Qwen/Qwen2.5-Coder-32B-Instruct"
      [] OTHER -> DEFAULT_MODEL

\* dict.get(model_name, DEFAULT_MODEL) on app.AVAILABLE_MODELS
app_AVAILABLE_MODELS_get(model_name) ==
    CASE model_name = "Qwen2.5-3B (Fast)" -> "Qwen/Qwen2.5-3B-Instruct"
      [] model_name = "Qwen2.5-7B (Recommended)" -> "Qwen/Qwen2.5-7B-Instruct"
      [] model_name = "Qwen2.5-14B (High Quality)" -> "Qwen/Qwen2.5-14B-Instruct"
      [] model_name = "Qwen2.5-Coder-32B (Best)" -> "Qwen/Qwen2.5-Coder-32B-Instruct"
      [] OTHER -> DEFAULT_MODEL

\* the keys of simple_ui.AVAILABLE_MODELS and of app.AVAILABLE_MODELS
AVAILABLE_MODELS_keys ==
    {"Qwen2.5-3B (Fast, 8GB RAM)", "Qwen2.5-7B (Recommended)",
     "Qwen2.5-14B (High Quality)", "Qwen2.5-Coder-32B (Best Quality)"}

app_AVAILABLE_MODELS_keys ==
    {"Qwen2.5-3B (Fast)", "Qwen2.5-7B (Recommended)",
     "Qwen2.5-14B (High Quality)", "Qwen2.5-Coder-32B (Best)"}

(* ---------------- exceptions and handler results ---------------- *)
MissingKeyError == "Please set HUGGINGFACE_API_KEY in Codespaces Secrets or .env file"
app_MissingKeyError == "Please enter your HuggingFace API Key"
EndpointError == "HuggingFaceEndpoint: could not be constructed"
AgentError == "Agent: validation error"
KickoffError == "Crew.kickoff: inference request failed"
IntTypeError ==
    "int() argument must be a string, a bytes-like object or a real number, not 'NoneType'"
SplitAttributeError == "'NoneType' object has no attribute 'split'"
SubscriptTypeError == "'NoneType' object is not subscriptable"

\* exceptions that are not instances of Exception (KeyboardInterrupt,
\* SystemExit, GeneratorExit) raised while a library call runs
EndpointInterrupt == "HuggingFaceEndpoint: interrupted"
AgentInterrupt == "Agent: interrupted"
KickoffInterrupt == "Crew.kickoff: interrupted"

\* isinstance(e, Exception): what 'except Exception' catches
IsException(e) ==
    e \notin {EndpointInterrupt, AgentInterrupt, TaskInterrupt, CrewInterrupt,
              KickoffInterrupt}

\* what a handler call did: the string it returned (a sequence of parts), the
\* exception raised inside it (None if none), the exception that left the
\* handler (None if it returned), and the value of the global it leaves
Returned(ret, raised, glob) ==
    [ret |-> ret, raised |-> raised, escaped |-> None, agency |-> glob]
Escaped(msg, glob) ==
    [ret |-> <<>>, raised |-> msg, escaped |-> msg, agency |-> glob]

(* ---------------- simple_ui.py : get_llm, initialize_agency ---------------- *)
HuggingFaceEndpoint(id, repo_id, token, lib) ==
    IF lib = "llm" THEN Raise(EndpointError)
    ELSE IF lib = "llm_base" THEN Raise(EndpointInterrupt)
    ELSE Value([isNone |-> FALSE, id |-> id, repo_id |-> repo_id,
                huggingfacehub_api_token |-> token, chat |-> FALSE])

\* get_llm that prefers the environment's key to the entered one
get_llm_env_first(model_id, api_key, env, id, lib) ==
    LET hf_token == Or(env.HUGGINGFACE_API_KEY, api_key)
        model == Or(model_id, DEFAULT_MODEL)
    IN IF ~Truthy(hf_token) THEN Raise(MissingKeyError)
       ELSE HuggingFaceEndpoint(id, model, hf_token, lib)

get_llm(model_id, api_key, env, id, lib) ==
    LET hf_token == Or(api_key, env.HUGGINGFACE_API_KEY)
        model == Or(model_id, DEFAULT_MODEL)
    IN IF ~Truthy(hf_token) THEN Raise(MissingKeyError)
       ELSE HuggingFaceEndpoint(id, model, hf_token, lib)

\* ContentAgency(llm) as called from a handler: the Agent constructors may raise
NewContentAgency(llm, lib) ==
    IF lib = "agency" THEN Raise(AgentError)
    ELSE IF lib = "agency_base" THEN Raise(AgentInterrupt)
    ELSE Value(ContentAgency(llm))

\* initialize_agency that clears the global before it builds the new agency
initialize_agency_reset(model_name, api_key, env, glob, id, lib) ==
    LET model_id == AVAILABLE_MODELS_get(model_name)
        llm == get_llm(model_id, IF Truthy(api_key) THEN api_key ELSE None,
                       env, id, lib)
        made == NewContentAgency(llm.value, lib)
    IN IF llm.raised # None /\ ~IsException(llm.raised)
         THEN Escaped(llm.raised, NoneObj)
       ELSE IF llm.raised # None
         THEN Returned(<<"X Error: ", llm.raised>>, llm.raised, NoneObj)
       ELSE IF made.raised # None /\ ~IsException(made.raised)
         THEN Escaped(made.raised, NoneObj)
       ELSE IF made.raised # None
         THEN Returned(<<"X Error: ", made.raised>>, made.raised, NoneObj)
       ELSE Returned(<<"OK Agency initialized with ", model_id, "!">>,
                     None, made.value)

initialize_agency(model_name, api_key, env, glob, id, lib) ==
    LET model_id == AVAILABLE_MODELS_get(model_name)
        llm == get_llm(model_id, IF Truthy(api_key) THEN api_key ELSE None,
                       env, id, lib)
        made == NewContentAgency(llm.value, lib)
    IN IF llm.raised # None /\ ~IsException(llm.raised)
         THEN Escaped(llm.raised, glob)
       ELSE IF llm.raised # None
         THEN Returned(<<"X Error: ", llm.raised>>, llm.raised, glob)
       ELSE IF made.raised # None /\ ~IsException(made.raised)
         THEN Escaped(made.raised, glob)
       ELSE IF made.raised # None
         THEN Returned(<<"X Error: ", made.raised>>, made.raised, glob)
       ELSE Returned(<<"OK Agency initialized with ", model_id, "!">>,
                     None, made.value)

(* ---------------- app.py : get_llm, initialize_agency ---------------- *)
\* app.py ContentAgency(llm) as called from the handler
app_NewContentAgency(llm, lib) ==
    IF lib = "agency" THEN Raise(AgentError)
    ELSE IF lib = "agency_base" THEN Raise(AgentInterrupt)
    ELSE Value(app_ContentAgency(llm))

app_get_llm(model_id, api_key, env, id, lib) ==
    LET hf_token == Or(api_key, Or(env.HUGGINGFACE_API_KEY, env.HF_TOKEN))
        model == Or(model_id, DEFAULT_MODEL)
        llm == HuggingFaceEndpoint(id, model, hf_token, lib)
    IN IF ~Truthy(hf_token) THEN Raise(app_MissingKeyError)
       ELSE IF llm.raised # None THEN llm
       ELSE Value([llm.value EXCEPT !.chat = TRUE])

\* app.initialize_agency that drops the current agency when the key is missing
\* or a constructor raises
app_initialize_agency_reset(model_name, api_key, env, glob, id, lib) ==
    LET model_id == app_AVAILABLE_MODELS_get(model_name)
        llm == app_get_llm(model_id, api_key, env, id, lib)
        made == app_NewContentAgency(llm.value, lib)
    IN IF ~Truthy(api_key)
         THEN Returned(<<"Error: Please enter your HuggingFace API Key">>,
                       None, NoneObj)
       ELSE IF llm.raised # None /\ ~IsException(llm.raised)
         THEN Escaped(llm.raised, NoneObj)
       ELSE IF llm.raised # None
         THEN Returned(<<"Error: ", llm.raised, "\n\nDetails: ",
                         "Traceback (most recent call last): ", llm.raised>>,
                       llm.raised, NoneObj)
       ELSE IF made.raised # None /\ ~IsException(made.raised)
         THEN Escaped(made.raised, NoneObj)
       ELSE IF made.raised # None
         THEN Returned(<<"Error: ", made.raised, "\n\nDetails: ",
                         "Traceback (most recent call last): ", made.raised>>,
                       made.raised, NoneObj)
       ELSE Returned(<<"OK Agency initialized with ", Str(model_name), "!">>,
                     None, made.value)

app_initialize_agency(model_name, api_key, env, glob, id, lib) ==
    LET model_id == app_AVAILABLE_MODELS_get(model_name)
        llm == app_get_llm(model_id, api_key, env, id, lib)
        made == app_NewContentAgency(llm.value, lib)
    IN IF ~Truthy(api_key)
         THEN Returned(<<"Error: Please enter your HuggingFace API Key">>, None, glob)
       ELSE IF llm.raised # None /\ ~IsException(llm.raised)
         THEN Escaped(llm.raised, glob)
       ELSE IF llm.raised # None
         THEN Returned(<<"Error: ", llm.raised, "\n\nDetails: ",
                         "Traceback (most recent call last): ", llm.raised>>,
                       llm.raised, glob)
       ELSE IF made.raised # None /\ ~IsException(made.raised)
         THEN Escaped(made.raised, glob)
       ELSE IF made.raised # None
         THEN Returned(<<"Error: ", made.raised, "\n\nDetails: ",
                         "Traceback (most recent call last): ", made.raised>>,
                       made.raised, glob)
       ELSE Returned(<<"OK Agency initialized with ", Str(model_name), "!">>,
                     None, made.value)

(* ---------------- str.split, str.strip, int, slicing ---------------- *)
\* The parts of a string are strings themselves; split, strip and slicing
\* work on the characters inside the parts, whatever the division in parts.
\* A character of ASCII other than the backslash is written as itself.  A
\* character outside ASCII, and the backslash, is written as in a Python
\* string literal: a backslash, "u" and four hexadecimal digits in upper
\* case (U+1680 is "\\u1680"), or a backslash, "U" and eight digits beyond
\* U+FFFF.  Such a notation is one character and lies within one part.

\* a string as a sequence of parts: no part for the empty string
Tok(str) == IF str = "" THEN <<>> ELSE <<str>>

\* the places the character starting at position i of str takes in str
CharLen(str, i) ==
    IF SubSeq(str, i, i) # "\\" THEN 1
    ELSE IF SubSeq(str, i + 1, i + 1) = "U" THEN 10 ELSE 6

\* the first and the last character of a non-empty str
FirstChar(str) == SubSeq(str, 1, CharLen(str, 1))

LastChar(str) ==
    LET n == Len(str)
    IN IF n >= 10 /\ SubSeq(str, n - 9, n - 8) = "\\U"
         THEN SubSeq(str, n - 9, n)
       ELSE IF n >= 6 /\ SubSeq(str, n - 5, n - 4) = "\\u"
         THEN SubSeq(str, n - 5, n)
       ELSE SubSeq(str, n, n)

\* index of the first ',' at or after position i of the string str, 0 if none
RECURSIVE FirstComma(_, _)
FirstComma(str, i) ==
    IF i > Len(str) THEN 0
    ELSE IF SubSeq(str, i, i) = "," THEN i ELSE FirstComma(str, i + 1)

\* s.split(',') : always at least one piece, pieces may be empty
RECURSIVE Split(_)
Split(s) ==
    IF s = <<>> THEN << <<>> >>
    ELSE LET h == Head(s)
             k == FirstComma(h, 1)
         IN IF k = 0
              THEN LET rest == Split(Tail(s))
                   IN << Tok(h) \o rest[1] >> \o Tail(rest)
            ELSE << Tok(SubSeq(h, 1, k - 1)) >>
                 \o Split(<<SubSeq(h, k + 1, Len(h))>> \o Tail(s))

\* the 29 characters str.strip() removes.  In ASCII: space, tab, line feed,
\* carriage return, form feed, then (written as the characters themselves)
\* U+000B, U+001C, U+001D, U+001E and U+001F.  Outside ASCII: U+0085, U+00A0,
\* U+1680, U+2000..U+200A, U+2028, U+2029, U+202F, U+205F and U+3000.
Whitespace ==
    {" ", "\t", "\n", "\r", "\f",
     "", "", "", "", "",
     "\\u0085", "\\u00A0", "\\u1680",
     "\\u2000", "\\u2001", "\\u2002", "\\u2003", "\\u2004", "\\u2005",
     "\\u2006", "\\u2007", "\\u2008", "\\u2009", "\\u200A",
     "\\u2028", "\\u2029", "\\u202F", "\\u205F", "\\u3000"}

\* str.lstrip() / str.rstrip() on one part
RECURSIVE LStripStr(_)
LStripStr(str) ==
    IF str # "" /\ FirstChar(str) \in Whitespace
      THEN LStripStr(SubSeq(str, CharLen(str, 1) + 1, Len(str)))
    ELSE str

RECURSIVE RStripStr(_)
RStripStr(str) ==
    IF str # "" /\ LastChar(str) \in Whitespace
      THEN RStripStr(SubSeq(str, 1, Len(str) - Len(LastChar(str))))
    ELSE str

\* p.strip() : whitespace removed at both ends
RECURSIVE LStrip(_)
LStrip(s) ==
    IF s = <<>> THEN <<>>
    ELSE LET h == LStripStr(Head(s))
         IN IF h = "" THEN LStrip(Tail(s)) ELSE <<h>> \o Tail(s)

RECURSIVE RStrip(_)
RStrip(s) ==
    IF s = <<>> THEN <<>>
    ELSE LET l == RStripStr(s[Len(s)])
         IN IF l = "" THEN RStrip(SubSeq(s, 1, Len(s) - 1))
            ELSE SubSeq(s, 1, Len(s) - 1) \o <<l>>

Strip(s) == RStrip(LStrip(s))

\* [p.strip() for p in platforms.split(',')]
platform_list(platforms) ==
    IF platforms.isNone THEN Raise(SplitAttributeError)
    ELSE LET pieces == Split(platforms.items)
         IN Value(PyList([i \in 1..Len(pieces) |-> Strip(pieces[i])]))

\* int(word_count) on the value of a gr.Number (a float in tenths, or None):
\* truncation toward zero
int(word_count) ==
    IF word_count.isNone THEN Raise(IntTypeError)
    ELSE IF word_count.tenths >= 0 THEN Value(word_count.tenths \div 10)
    ELSE Value(-((-word_count.tenths) \div 10))

\* from position i of str, n characters further or the end of str: the
\* position reached and the characters still to take
RECURSIVE Skip(_, _, _)
Skip(str, i, n) ==
    IF i > Len(str) \/ n = 0 THEN [at |-> i, left |-> n]
    ELSE Skip(str, i + CharLen(str, i), n - 1)

\* the first n characters of the parts s
RECURSIVE Take(_, _)
Take(s, n) ==
    IF s = <<>> \/ n <= 0 THEN <<>>
    ELSE LET end == Skip(Head(s), 1, n)
         IN IF end.at > Len(Head(s))
              THEN <<Head(s)>> \o Take(Tail(s), end.left)
            ELSE <<SubSeq(Head(s), 1, end.at - 1)>>

\* s[:200] : the first 200 characters
Slice200(s) ==
    IF s.isNone THEN Raise(SubscriptTypeError)
    ELSE Value(Take(s.items, 200))

(* ---------------- the workflow handlers ---------------- *)
\* A handler call in two steps: everything up to the call of crew.kickoff()
\* (Started, or Finished when it returns before), and the rest once the
\* external pass has returned or raised.
Finished(handler, self, crews, progress, ret, raised, escaped) ==
    [handler |-> handler, pc |-> "returned", self |-> self, crews |-> crews,
     progress |-> progress, ret |-> ret, raised |-> raised, escaped |-> escaped,
     args |-> NoneObj, good |-> NoneObj,
     result |-> <<>>]

Started(handler, self, crew, progress, args) ==
    [handler |-> handler, pc |-> "kickoff", self |-> self, crews |-> <<crew>>,
     progress |-> progress, ret |-> <<>>, raised |-> None, escaped |-> None,
     args |-> args, good |-> NoneObj, result |-> <<>>]

\* the handler's return once the workflow method has returned its dictionary
\* (result), after the closing progress report
\* the handler's return when the workflow method raised before crew.kickoff():
\* 'except Exception' turns an Exception into the error string, any other
\* exception leaves the handler
Failed(handler, self, progress, prefix, raised) ==
    IF IsException(raised)
      THEN Finished(handler, self, <<>>, progress, <<prefix, raised>>, raised, None)
    ELSE Finished(handler, self, <<>>, progress, <<>>, raised, raised)

Completed(c, result, ret, raised) ==
    [Finished(c.handler, c.self, c.crews, Append(c.progress, 100), ret, raised, None)
        EXCEPT !.args = c.args, !.result = <<result>>]

NotInitialized == "X Please initialize the agency first!"
app_NotInitialized == "Please initialize the agency first!"

\* create_article_ui with int(word_count) evaluated outside the try block
create_article_ui_unguarded(glob, topic, audience, word_count, lib) ==
    LET wc == int(word_count)
    IN IF glob.isNone
         THEN Finished("create_article_ui", NoneObj, <<>>, <<>>,
                       <<NotInitialized>>, None, None)
       ELSE IF wc.raised # None
         THEN Finished("create_article_ui", glob, <<>>, <<>>,
                       <<>>, wc.raised, wc.raised)
       ELSE LET made == create_article(glob, topic, audience, wc.value, lib)
            IN IF made.raised # None
                 THEN Failed("create_article_ui", glob, <<0, 20>>, "X Error: ", made.raised)
               ELSE Started("create_article_ui", glob, made.value, <<0, 20>>,
                            [topic |-> topic, target_audience |-> audience,
                             word_count |-> wc.value])

\* simple_ui.create_article_ui
create_article_ui(glob, topic, audience, word_count, lib) ==
    LET wc == int(word_count)
    IN IF glob.isNone
         THEN Finished("create_article_ui", NoneObj, <<>>, <<>>,
                       <<NotInitialized>>, None, None)
       ELSE IF wc.raised # None
         THEN Finished("create_article_ui", glob, <<>>, <<0, 20>>,
                       <<"X Error: ", wc.raised>>, wc.raised, None)
       ELSE LET made == create_article(glob, topic, audience, wc.value, lib)
            IN IF made.raised # None
                 THEN Failed("create_article_ui", glob, <<0, 20>>, "X Error: ", made.raised)
               ELSE Started("create_article_ui", glob, made.value, <<0, 20>>,
                            [topic |-> topic, target_audience |-> audience,
                             word_count |-> wc.value])

\* create_article_ui that starts the crew a second time when the pass raises
create_article_ui_done_retry(c, out) ==
    LET result == create_article_return(out.value, c.args.topic,
                      c.args.target_audience, c.args.word_count)
    IN IF out.raised # None /\ ~IsException(out.raised)
         THEN Finished(c.handler, c.self, c.crews, c.progress,
                       <<>>, out.raised, out.raised)
       ELSE IF out.raised # None
         THEN Finished(c.handler, c.self, <<kickoff(c.crews[1])>>, c.progress,
                       <<"X Error: ", out.raised>>, out.raised, None)
       ELSE Completed(c, result,
                     <<"## OK Article Created Successfully!",
                       "**Topic:** ", Str(result.topic),
                       "**Target Audience:** ", Str(result.audience),
                       "**Word Count:** ", ToString(result.word_count),
                       "---", result.article>>, None)

create_article_ui_done(c, out) ==
    LET result == create_article_return(out.value, c.args.topic,
                      c.args.target_audience, c.args.word_count)
    IN IF out.raised # None /\ ~IsException(out.raised)
         THEN Finished(c.handler, c.self, c.crews, c.progress,
                       <<>>, out.raised, out.raised)
       ELSE IF out.raised # None
         THEN Finished(c.handler, c.self, c.crews, c.progress,
                       <<"X Error: ", out.raised>>, out.raised, None)
       ELSE Completed(c, result,
                     <<"## OK Article Created Successfully!",
                       "**Topic:** ", Str(result.topic),
                       "**Target Audience:** ", Str(result.audience),
                       "**Word Count:** ", ToString(result.word_count),
                       "---", result.article>>, None)

\* simple_ui.create_social_ui
create_social_ui(glob, topic, platforms, lib) ==
    LET pl == platform_list(platforms)
    IN IF glob.isNone
         THEN Finished("create_social_ui", NoneObj, <<>>, <<>>,
                       <<NotInitialized>>, None, None)
       ELSE IF pl.raised # None
         THEN Finished("create_social_ui", glob, <<>>, <<0>>,
                       <<"X Error: ", pl.raised>>, pl.raised, None)
       ELSE LET made == create_social_campaign(glob, topic, pl.value, lib)
            IN IF made.raised # None
                 THEN Failed("create_social_ui", glob, <<0, 30>>, "X Error: ", made.raised)
               ELSE Started("create_social_ui", glob, made.value, <<0, 30>>,
                            [topic |-> topic, platforms |-> pl.value])

create_social_ui_done(c, out) ==
    LET result == create_social_campaign_return(out.value, c.args.topic,
                                                c.args.platforms)
    IN IF out.raised # None /\ ~IsException(out.raised)
         THEN Finished(c.handler, c.self, c.crews, c.progress,
                       <<>>, out.raised, out.raised)
       ELSE IF out.raised # None
         THEN Finished(c.handler, c.self, c.crews, c.progress,
                       <<"X Error: ", out.raised>>, out.raised, None)
       ELSE Completed(c, result,
                     <<"## OK Social Campaign Created!",
                       "**Topic:** ", Str(result.topic), "**Platforms:** ">>
                     \o Join(result.platforms) \o <<"---", result.posts>>,
                     None)

\* simple_ui.optimize_content_ui
optimize_content_ui(glob, content, lib) ==
    IF glob.isNone
      THEN Finished("optimize_content_ui", NoneObj, <<>>, <<>>,
                    <<NotInitialized>>, None, None)
    ELSE LET made == optimize_content(glob, content, lib)
         IN IF made.raised # None
              THEN Failed("optimize_content_ui", glob, <<0, 30>>, "X Error: ", made.raised)
            ELSE Started("optimize_content_ui", glob, made.value, <<0, 30>>,
                         [existing_content |-> content])

optimize_content_ui_done(c, out) ==
    LET result == optimize_content_return(out.value, c.args.existing_content)
        head == Slice200(result.original_content)
    IN IF out.raised # None /\ ~IsException(out.raised)
         THEN Finished(c.handler, c.self, c.crews, c.progress,
                       <<>>, out.raised, out.raised)
       ELSE IF out.raised # None
         THEN Finished(c.handler, c.self, c.crews, c.progress,
                       <<"X Error: ", out.raised>>, out.raised, None)
       ELSE IF head.raised # None
         THEN Completed(c, result,
                       <<"X Error: ", head.raised>>, head.raised)
       ELSE Completed(c, result,
                     <<"## OK Content Optimized!", "### Original Content:">>
                     \o head.value
                     \o <<"...", "---", "### Optimized Version:",
                          result.optimized_content>>, None)

\* app.create_article_ui
app_create_article_ui(glob, topic, audience, word_count, lib) ==
    LET wc == int(word_count)
    IN IF glob.isNone
         THEN Finished("create_article_ui", NoneObj, <<>>, <<>>,
                       <<app_NotInitialized>>, None, None)
       ELSE IF wc.raised # None
         THEN Finished("create_article_ui", glob, <<>>, <<0, 20>>,
                       <<"Error: ", wc.raised>>, wc.raised, None)
       ELSE LET made == app_create_article(glob, topic, audience, wc.value, lib)
            IN IF made.raised # None
                 THEN Failed("create_article_ui", glob, <<0, 20>>, "Error: ", made.raised)
               ELSE Started("create_article_ui", glob, made.value, <<0, 20>>,
                            [topic |-> topic, target_audience |-> audience,
                             word_count |-> wc.value])

app_create_article_ui_done(c, out) ==
    LET result == create_article_return(out.value, c.args.topic,
                      c.args.target_audience, c.args.word_count)
    IN IF out.raised # None /\ ~IsException(out.raised)
         THEN Finished(c.handler, c.self, c.crews, c.progress,
                       <<>>, out.raised, out.raised)
       ELSE IF out.raised # None
         THEN Finished(c.handler, c.self, c.crews, c.progress,
                       <<"Error: ", out.raised>>, out.raised, None)
       ELSE Completed(c, result,
                     <<"## Article Created Successfully!",
                       "**Topic:** ", Str(result.topic),
                       "**Target Audience:** ", Str(result.audience),
                       "**Word Count:** ", ToString(result.word_count),
                       "---", result.article>>, None)

\* app.create_social_ui
app_create_social_ui(glob, topic, platforms, lib) ==
    LET pl == platform_list(platforms)
    IN IF glob.isNone
         THEN Finished("create_social_ui", NoneObj, <<>>, <<>>,
                       <<app_NotInitialized>>, None, None)
       ELSE IF pl.raised # None
         THEN Finished("create_social_ui", glob, <<>>, <<0>>,
                       <<"Error: ", pl.raised>>, pl.raised, None)
       ELSE LET made == app_create_social_campaign(glob, topic, pl.value, lib)
            IN IF made.raised # None
                 THEN Failed("create_social_ui", glob, <<0, 30>>, "Error: ", made.raised)
               ELSE Started("create_social_ui", glob, made.value, <<0, 30>>,
                            [topic |-> topic, platforms |-> pl.value])

app_create_social_ui_done(c, out) ==
    LET result == create_social_campaign_return(out.value, c.args.topic,
                                                c.args.platforms)
    IN IF out.raised # None /\ ~IsException(out.raised)
         THEN Finished(c.handler, c.self, c.crews, c.progress,
                       <<>>, out.raised, out.raised)
       ELSE IF out.raised # None
         THEN Finished(c.handler, c.self, c.crews, c.progress,
                       <<"Error: ", out.raised>>, out.raised, None)
       ELSE Completed(c, result,
                     <<"## Social Campaign Created!",
                       "**Topic:** ", Str(result.topic), "**Platforms:** ">>
                     \o Join(result.platforms) \o <<"---", result.posts>>,
                     None)

\* the status strings that report success
SuccessHeaders ==
    {"OK Agency initialized with ", "## OK Article Created Successfully!",
     "## OK Social Campaign Created!", "## OK Content Optimized!",
     "## Article Created Successfully!", "## Social Campaign Created!"}

IsSuccess(ret) == ret # <<>> /\ ret[1] \in SuccessHeaders

(* ---------------- inputs ---------------- *)
EnvValues == {None, "", "hf_env_token"}
SpaceTokens == {None, "hf_space_token"}
ModelNames == {None, "Qwen2.5-14B (High Quality)"}
ApiKeys == {"", "hf_form_token"}
\* the library's constructors return, or one of them raises an Exception
\* ("llm", "agency") or an exception that is not one ("llm_base", "agency_base")
LibOutcomes == {"none", "llm", "agency", "llm_base", "agency_base"}
\* the Task(...) and Crew(...) calls of a workflow method return, or one of
\* them raises an Exception ("task", "crew") or an exception that is not one
BuildOutcomes == {"none", "task", "task_base", "crew", "crew_base"}
Topics == {"AI in Healthcare"}
Audiences == {"healthcare professionals"}
WordCounts == {NoneObj, [isNone |-> FALSE, tenths |-> 5009]}
\* no platforms, and two platforms with whitespace around them
PlatformInputs ==
    {NoneObj,
     Text(<<"\t\\u1680", "twitter", " \\u00A0", ",", "\\u3000 ", "linkedin",
            "\\u2003">>)}
\* no content, and one of 240 characters in five parts of 48 (more than the
\* 200 the success text shows)
Contents == {NoneObj,
             Text([i \in 1..5 |-> "lorem ipsum dolor sit amet, consectetur adipisci"])}
\* crew.kickoff() returns the crew's output or raises, an Exception or not;
\* a raising outcome carries no value (None as the string sentinel, the value
\* being a string)
KickoffOutcomes ==
    {Value("crew output"), [Raise(KickoffError) EXCEPT !.value = None],
     [Raise(KickoffInterrupt) EXCEPT !.value = None]}

(* ---------------- the state machine ---------------- *)
NoCall ==
    [handler |-> "none", pc |-> "idle", self |-> NoneObj, crews |-> <<>>,
     progress |-> <<>>, ret |-> <<>>, raised |-> None, escaped |-> None,
     args |-> NoneObj, good |-> NoneObj,
     result |-> <<>>]

Init ==
    /\ ui \in {"simple_ui", "app"}
    /\ environ \in [HUGGINGFACE_API_KEY : EnvValues, HF_TOKEN : SpaceTokens]
    /\ ui = "simple_ui" => environ.HF_TOKEN = None
    /\ ui = "app" => environ.HUGGINGFACE_API_KEY # ""
                     /\ None \in {environ.HUGGINGFACE_API_KEY, environ.HF_TOKEN}
    /\ agency = NoneObj
    /\ nInit = 0
    /\ initRet = NoneObj
    /\ lastGood = NoneObj
    /\ call = NoCall
    /\ waiting = EmptyBag

\* The handlers take no lock and the click events are queued independently, so
\* a handler may start while other calls are inside crew.kickoff(). call is
\* the handler call of the latest step, the one that began or returned in it
\* (NoCall when the step was an initialization); waiting is the bag of the
\* other calls that are inside crew.kickoff().
Active == BagCardinality(waiting) + (IF call.pc = "kickoff" THEN 1 ELSE 0)

\* the calls inside crew.kickoff(), call included
Parked == IF call.pc = "kickoff" THEN waiting (+) SetToBag({call}) ELSE waiting

\* click on 'Initialize Agency'; a call inside crew.kickoff() goes on waiting
InitializeAgency ==
    /\ nInit < MaxInits
    /\ \E model_name \in ModelNames, api_key \in ApiKeys, lib \in LibOutcomes :
         LET r == IF ui = "simple_ui"
                    THEN initialize_agency(model_name, api_key, environ,
                                           agency, nInit + 1, lib)
                    ELSE app_initialize_agency(model_name, api_key, environ,
                                               agency, nInit + 1, lib)
         IN \* an outcome other than "none" is drawn only for a call that
            \* reaches the library's constructors
            /\ lib # "none" =>
                  r.raised \notin {None, MissingKeyError, app_MissingKeyError}
            /\ agency' = r.agency
            /\ initRet' = [ret |-> r.ret, raised |-> r.raised,
                           escaped |-> r.escaped, model_name |-> model_name,
                           api_key |-> api_key, lib |-> lib]
            /\ lastGood' = IF IsSuccess(r.ret)
                             THEN [isNone |-> FALSE, id |-> nInit + 1]
                             ELSE lastGood
    /\ nInit' = nInit + 1
    /\ call' = NoCall
    /\ waiting' = Parked
    /\ UNCHANGED <<ui, environ>>

\* the exceptions Task(...) and Crew(...) raise
BuildErrors == {TaskError, TaskInterrupt, CrewError, CrewInterrupt}

\* a handler call; good records the most recent successful initialization.
\* An outcome other than "none" is drawn only for a call that reaches the
\* Task(...) and Crew(...) constructors.
Begin(c, lib) ==
    /\ Active < MaxActive
    /\ lib # "none" => c.raised \in BuildErrors
    /\ call' = [c EXCEPT !.good = lastGood]
    /\ waiting' = Parked
    /\ UNCHANGED <<ui, environ, agency, nInit, initRet, lastGood>>

\* click on 'Create Article'
CreateArticleUI ==
    \E topic \in Topics, audience \in Audiences, word_count \in WordCounts,
       lib \in BuildOutcomes :
         Begin(IF ui = "simple_ui"
                 THEN create_article_ui(agency, topic, audience, word_count, lib)
                 ELSE app_create_article_ui(agency, topic, audience, word_count,
                                            lib),
               lib)

\* click on 'Create Campaign'
CreateSocialUI ==
    \E topic \in Topics, platforms \in PlatformInputs, lib \in BuildOutcomes :
         Begin(IF ui = "simple_ui"
                 THEN create_social_ui(agency, topic, platforms, lib)
                 ELSE app_create_social_ui(agency, topic, platforms, lib),
               lib)

\* click on 'Optimize Content' (simple_ui only)
OptimizeContentUI ==
    /\ ui = "simple_ui"
    /\ \E content \in Contents, lib \in BuildOutcomes :
         Begin(optimize_content_ui(agency, content, lib), lib)

\* the rest of the handler call c once crew.kickoff() has returned or raised
Done(c, out) ==
    LET done ==
          CASE c.handler = "create_article_ui" /\ ui = "simple_ui" ->
               create_article_ui_done(c, out)
          [] c.handler = "create_article_ui" /\ ui = "app" ->
               app_create_article_ui_done(c, out)
          [] c.handler = "create_social_ui" /\ ui = "simple_ui" ->
               create_social_ui_done(c, out)
          [] c.handler = "create_social_ui" /\ ui = "app" ->
               app_create_social_ui_done(c, out)
          [] OTHER -> optimize_content_ui_done(c, out)
    IN [done EXCEPT !.good = c.good]

\* crew.kickoff() returns or raises in one of the calls inside it, in any
\* order, and that handler runs to its end
KickoffReturns ==
    \E c \in BagToSet(Parked), out \in KickoffOutcomes :
        /\ call' = Done(c, out)
        /\ waiting' = Parked (-) SetToBag({c})
        /\ UNCHANGED <<ui, environ, agency, nInit, initRet, lastGood>>

Next ==
    \/ InitializeAgency
    \/ CreateArticleUI
    \/ CreateSocialUI
    \/ OptimizeContentUI
    \/ KickoffReturns

Spec == Init /\ [][Next]_vars

(* ======================== the claims ======================== *)
\* P holds of every handler call in the state: the one that began or returned
\* last and those waiting in crew.kickoff()
AllCalls(P(_)) == P(call) /\ \A w \in BagToSet(waiting) : P(w)

\* a step in which a handler starts (CreateArticleUI, CreateSocialUI or
\* OptimizeContentUI): no initialization takes place and no call leaves
\* crew.kickoff()
HandlerStarts == nInit' = nInit /\ waiting' = Parked

\* the crews a handler call has built, by workflow
HasCrew(h) == call.handler = h /\ call.crews # <<>>
TheCrew == call.crews[1]

\* first literal piece of each task's prompt, in task-list order
Heads(crew) == [i \in 1..Len(crew.tasks) |-> crew.tasks[i].description[1]]

\* C1 as stated: in create_article the first task has no context and every
\* later task has as context exactly the one task right before it.
C1_LinearChain ==
    HasCrew("create_article_ui") =>
        LET t == TheCrew.tasks
        IN /\ t[1].context = <<>>
           /\ \A i \in 2..Len(t) : t[i].context = <<t[i - 1]>>

\* C1 amended: in create_article the research task has no context, the writing
\* task has exactly the research task, the SEO task has exactly the writing
\* task, and the QA task has exactly the writing task and the SEO task, in
\* that order.
C1_ArticleContexts ==
    HasCrew("create_article_ui") =>
        LET t == TheCrew.tasks
        IN /\ Len(t) = 4
           /\ t[1].context = <<>>
           /\ t[2].context = <<t[1]>>
           /\ t[3].context = <<t[2]>>
           /\ t[4].context = <<t[2], t[3]>>

C1_Witness ==
    /\ HasCrew("create_article_ui")
    /\ Len(TheCrew.tasks[4].context) = 2

\* C2: in every workflow's crew, each task named in a task's context stands
\* strictly earlier in the task list than that task.
C2_ContextEarlier ==
    call.crews # <<>> =>
        LET t == TheCrew.tasks
        IN \A i \in 1..Len(t) : \A k \in 1..Len(t[i].context) :
              \E j \in 1..(i - 1) : t[j] = t[i].context[k]

C2_Witness ==
    /\ HasCrew("optimize_content_ui")
    /\ \E i \in 1..Len(TheCrew.tasks) : TheCrew.tasks[i].context # <<>>

\* C3: whatever the inputs, create_article hands the crew its 4 tasks,
\* create_social_campaign its 3 and optimize_content its 3, always in the
\* same order (never more than four).
C3_FixedTaskSequence ==
    call.crews # <<>> =>
        /\ Len(TheCrew.tasks) <= 4
        /\ call.handler = "create_article_ui" =>
              Heads(TheCrew) = <<"Research the topic: ", "Write a ",
                                 "Optimize the article for SEO",
                                 "Review the article for quality">>
        /\ call.handler = "create_social_ui" =>
              Heads(TheCrew) = <<"Research the topic: ",
                                 "Create social media posts about: ",
                                 "Review social posts">>
        /\ call.handler = "optimize_content_ui" =>
              Heads(TheCrew) = <<"Analyze and optimize this content: ",
                                 "Rewrite the content based on SEO recommendations",
                                 "Compare original and optimized versions">>

C3_Witness ==
    /\ HasCrew("create_social_ui")
    /\ call.pc = "kickoff"
    /\ Len(call.args.platforms.items) = 2
    /\ Len(TheCrew.tasks) = 3

\* a handler outcome in which no exception escaped, an exception raised inside
\* shows its message in the returned string, and success is reported only
\* when nothing was raised
Handled(r) ==
    /\ r.escaped = None
    /\ r.raised # None => Contains(r.ret, r.raised) /\ ~IsSuccess(r.ret)
    /\ IsSuccess(r.ret) => r.raised = None

\* C4 as stated: no UI handler lets an exception escape; when the LLM or
\* agency construction, the input conversion or the workflow call raises, the
\* returned string contains the exception's message and is not the success
\* text.
C4_ExceptionsSurfaced ==
    /\ nInit > 0 => Handled(initRet)
    /\ call.pc = "returned" => Handled(call)

\* a handler outcome as 'except Exception' leaves it: an exception leaves the
\* handler exactly when it is not an Exception, and then no string is
\* returned; an Exception raised inside shows its message in the returned
\* string, which is not the success text; success is reported only when
\* nothing was raised
Caught(r) ==
    /\ (r.escaped # None) <=> (r.raised # None /\ ~IsException(r.raised))
    /\ r.escaped # None => r.escaped = r.raised /\ r.ret = <<>>
    /\ (r.raised # None /\ IsException(r.raised)) =>
          Contains(r.ret, r.raised) /\ ~IsSuccess(r.ret)
    /\ IsSuccess(r.ret) => r.raised = None

\* C4 amended: no UI handler lets an exception that is an Exception escape:
\* when the LLM or agency construction, the input conversion or the workflow
\* call raises one, the returned string contains its message and is not the
\* success text; an exception that is not an Exception (KeyboardInterrupt,
\* SystemExit) leaves the handler, which then returns no string.
C4_ExceptionsCaught ==
    /\ nInit > 0 => Caught(initRet)
    /\ call.pc = "returned" => Caught(call)

C4_Witness ==
    /\ nInit > 0
    /\ initRet.escaped = EndpointInterrupt
    /\ call.pc = "returned"
    /\ call.raised = KickoffError
    /\ Contains(call.ret, KickoffError)

IsNotInitialized(ret) == ret \in {<<NotInitialized>>, <<app_NotInitialized>>}

\* a call answers 'Please initialize the agency first!' exactly when no
\* initialization had succeeded before it began, and then it has built no
\* crew and reported no progress
InitializeFirst(c) ==
    c.pc # "idle" =>
        /\ IsNotInitialized(c.ret) <=> c.good.isNone
        /\ IsNotInitialized(c.ret) => c.crews = <<>> /\ c.progress = <<>>

\* C5: a workflow handler answers 'Please initialize the agency first!'
\* exactly when no initialize_agency call had reported success before it, and
\* then it builds no crew and reports no progress; this holds of every call,
\* also of one made while other calls wait in crew.kickoff(); once an
\* initialization has succeeded the agency handle is never empty again and
\* no handler that starts returns the message.
C5_InitializeFirst ==
    [][/\ AllCalls(InitializeFirst) /\ AllCalls(InitializeFirst)'
       /\ ~lastGood.isNone => ~agency.isNone /\ ~agency'.isNone
       /\ ~lastGood.isNone /\ HandlerStarts => ~IsNotInitialized(call'.ret)]_vars

C5_Witness ==
    /\ nInit > 0
    /\ call.pc = "returned"
    /\ IsNotInitialized(call.ret)

\* the workflow method of the call was entered
MethodCalled(c) ==
    \/ c.pc = "kickoff"
    \/ c.result # <<>>
    \/ c.raised \in BuildErrors \cup {KickoffError, KickoffInterrupt}

\* C6 as stated: each call of a workflow method builds exactly one crew and
\* starts it exactly once, and no handler call starts more than one pass.
C6_ExactlyOneCrew ==
    AllCalls(LAMBDA c :
        /\ Len(c.crews) <= 1
        /\ \A i \in 1..Len(c.crews) : c.crews[i].kickoffs = 1
        /\ MethodCalled(c) => Len(c.crews) = 1)

\* C6 amended: a handler call builds at most one crew and never starts a
\* crew twice, also after the pass raised (no retry); a workflow method
\* builds exactly one crew and starts it exactly once unless one of its
\* Task(...) or Crew(...) constructor calls raises, and then it starts no
\* crew at all.
C6_OneCrewUnlessBuildRaises ==
    AllCalls(LAMBDA c :
        /\ Len(c.crews) <= 1
        /\ \A i \in 1..Len(c.crews) : c.crews[i].kickoffs = 1
        /\ MethodCalled(c) /\ c.raised \notin BuildErrors => Len(c.crews) = 1
        /\ c.raised \in BuildErrors => c.crews = <<>>)

C6_Witness ==
    /\ call.pc = "returned"
    /\ call.raised = KickoffError
    /\ Len(call.crews) = 1
    /\ call.crews[1].kickoffs = 1
    /\ \E w \in BagToSet(waiting) : w.crews[1].kickoffs = 1

\* the key simple_ui.initialize_agency is to use
ChosenKey == Or(initRet.api_key, environ.HUGGINGFACE_API_KEY)
CreatedNow == ~agency.isNone /\ agency.llm.id = nInit

\* C7 as stated: simple_ui.initialize_agency uses the entered key when it is
\* non-empty and else the environment's; it succeeds whenever one of the two is
\* non-empty, and with both missing it returns the error asking to set
\* HUGGINGFACE_API_KEY and creates no agency.
C7_SucceedsWithAnyKey ==
    ui = "simple_ui" /\ nInit > 0 =>
        /\ Truthy(ChosenKey) =>
              /\ IsSuccess(initRet.ret)
              /\ CreatedNow
              /\ agency.llm.huggingfacehub_api_token = ChosenKey
        /\ ~Truthy(ChosenKey) =>
              /\ initRet.ret = <<"X Error: ", MissingKeyError>>
              /\ ~CreatedNow

\* C7 amended: with a non-empty entered key or, failing that, a non-empty
\* environment key, initialize_agency builds the LLM with that key and
\* succeeds unless the LLM or agency constructor raises; then it creates no
\* agency, and returns the error when the exception is an Exception (any
\* other exception leaves the handler); with both missing it returns the
\* error asking to set HUGGINGFACE_API_KEY and creates no agency.
C7_KeyChoice ==
    ui = "simple_ui" /\ nInit > 0 =>
        /\ Truthy(ChosenKey) /\ initRet.lib = "none" =>
              /\ IsSuccess(initRet.ret)
              /\ CreatedNow
              /\ agency.llm.huggingfacehub_api_token = ChosenKey
        /\ Truthy(ChosenKey) /\ initRet.lib \in {"llm", "agency"} =>
              /\ initRet.raised \in {EndpointError, AgentError}
              /\ initRet.ret = <<"X Error: ", initRet.raised>>
              /\ ~CreatedNow
        /\ Truthy(ChosenKey) /\ initRet.lib \in {"llm_base", "agency_base"} =>
              /\ initRet.escaped \in {EndpointInterrupt, AgentInterrupt}
              /\ initRet.ret = <<>>
              /\ ~CreatedNow
        /\ ~Truthy(ChosenKey) =>
              /\ initRet.ret = <<"X Error: ", MissingKeyError>>
              /\ ~CreatedNow

C7_Witness ==
    /\ ui = "simple_ui"
    /\ nInit > 0
    /\ ~Truthy(initRet.api_key)
    /\ Truthy(environ.HUGGINGFACE_API_KEY)
    /\ IsSuccess(initRet.ret)
    /\ agency.llm.huggingfacehub_api_token = environ.HUGGINGFACE_API_KEY

\* roles of the agents assigned to the tasks, in task-list order
TaskRoles(crew) == [i \in 1..Len(crew.tasks) |-> crew.tasks[i].agent.role]
Declared(names) == [i \in 1..Len(names) |-> RoleOfFactory[names[i]]]

\* C8: in each workflow the roles of the tasks' agents, in execution order,
\* are the roles WORKFLOW_TEMPLATES and roles.WORKFLOWS declare for it, and
\* the crew's agents are exactly the agents that have a task.
C8_RolesAsDeclared ==
    call.crews # <<>> =>
        /\ call.handler = "create_article_ui" =>
              /\ TaskRoles(TheCrew) = WORKFLOW_TEMPLATES.create_article
              /\ TaskRoles(TheCrew) = Declared(WORKFLOWS.article_creation)
        /\ call.handler = "create_social_ui" =>
              /\ TaskRoles(TheCrew) = WORKFLOW_TEMPLATES.create_social_campaign
              /\ TaskRoles(TheCrew) = Declared(WORKFLOWS.social_media_campaign)
        /\ call.handler = "optimize_content_ui" =>
              /\ TaskRoles(TheCrew) = WORKFLOW_TEMPLATES.optimize_content
              /\ TaskRoles(TheCrew) = Declared(WORKFLOWS.content_optimization)
        /\ SeqToSet(TheCrew.agents) =
              {TheCrew.tasks[i].agent : i \in 1..Len(TheCrew.tasks)}
        /\ Len(TheCrew.agents) = Len(TheCrew.tasks)

C8_Witness ==
    /\ HasCrew("create_social_ui")
    /\ TaskRoles(TheCrew)[2] = "Social Media Manager"

\* C9: an initialize_agency call that does not report success leaves the
\* global agency as it was; a handler that starts while the last status is an
\* error, after an earlier success, runs with that earlier agency, whether
\* or not other calls are waiting in crew.kickoff().
C9_FailedInitKeepsAgency ==
    [][/\ nInit' = nInit + 1 /\ ~IsSuccess(initRet'.ret) => agency' = agency
       /\ (/\ HandlerStarts
           /\ nInit > 0
           /\ ~lastGood.isNone) =>
             /\ ~IsSuccess(initRet.ret) => call'.self = agency
             /\ ~agency.isNone
             /\ agency.llm.id = lastGood.id]_vars

\* the second initialization failed, then a handler started (call is the call
\* of the latest step) on the agency of the first, with another call waiting
C9_Witness ==
    /\ nInit = 2
    /\ ~IsSuccess(initRet.ret)
    /\ ~agency.isNone
    /\ call.pc = "kickoff"
    /\ call.self = agency
    /\ call.self.llm.id = 1
    /\ \E w \in BagToSet(waiting) : w.self = agency

\* all five agents of an agency use the agency's own llm
Bound(a) ==
    \A f \in {"researcher", "writer", "seo", "social", "qa"} : a[f].llm = a.llm

\* a call that got past the agency test ran on the agency of the most
\* recent successful initialization before it, and its crew's agents and its
\* tasks' agents all use that agency's one llm
OneModel(c) ==
    ~c.self.isNone =>
        /\ ~c.good.isNone
        /\ c.self.llm.id = c.good.id
        /\ Bound(c.self)
        /\ \A k \in 1..Len(c.crews) :
              /\ \A i \in 1..Len(c.crews[k].agents) :
                    c.crews[k].agents[i].llm = c.self.llm
              /\ \A i \in 1..Len(c.crews[k].tasks) :
                    c.crews[k].tasks[i].agent.llm = c.self.llm

\* C10: a handler that starts a workflow runs it on the agency made by the
\* most recent successful initialize_agency call; that agency's five agents,
\* and so every agent of the crew and of its tasks, use the one LLM built in
\* that call; this holds of every workflow under way, also when workflows
\* started under different initializations run at the same time.
C10_OneModelPerWorkflow ==
    /\ AllCalls(OneModel)
    /\ ~agency.isNone =>
          /\ ~lastGood.isNone
          /\ agency.llm.id = lastGood.id
          /\ Bound(agency)

C10_Witness ==
    /\ nInit = 2
    /\ ~lastGood.isNone
    /\ lastGood.id = 2
    /\ call.pc = "kickoff"
    /\ call.self.llm.id = 2
    /\ call.handler = "create_social_ui"
    /\ \E w \in BagToSet(waiting) : w.self.llm.id = 1

\* the lookup table of the running module
ModelKeys == IF ui = "simple_ui" THEN AVAILABLE_MODELS_keys ELSE app_AVAILABLE_MODELS_keys
ModelOf(name) ==
    IF ui = "simple_ui" THEN AVAILABLE_MODELS_get(name) ELSE app_AVAILABLE_MODELS_get(name)

\* a status names a model when it shows the model's identifier or a menu name
\* the table maps to that identifier
NamesModel(ret, repo_id) ==
    \/ Contains(ret, repo_id)
    \/ \E k \in ModelKeys : Contains(ret, k) /\ ModelOf(k) = repo_id

\* C11: after a successful initialize_agency(model_name, ...) the agency's
\* model is AVAILABLE_MODELS[model_name] for a known name and DEFAULT_MODEL
\* for any other (None included), and the status 'Agency initialized with X'
\* names the model the agency was built with.
C11_StatusNamesModel ==
    nInit > 0 /\ IsSuccess(initRet.ret) =>
        /\ initRet.model_name \in ModelKeys =>
              agency.llm.repo_id = ModelOf(initRet.model_name)
        /\ initRet.model_name \notin ModelKeys => agency.llm.repo_id = DEFAULT_MODEL
        /\ NamesModel(initRet.ret, agency.llm.repo_id)

\* C12: the dictionary a workflow method returns holds its arguments
\* unchanged beside the crew's result: create_article its topic, audience and
\* word_count with 'article' the value crew.kickoff() returned;
\* create_social_campaign its topic and the platform list it put in the
\* prompt; optimize_content 'original_content' equal to existing_content and
\* 'optimized_content' the crew's result.
C12_InputsReturned ==
    call.result # <<>> =>
        LET r == call.result[1]
            a == call.args
        IN /\ call.handler = "create_article_ui" =>
                 /\ r.topic = a.topic
                 /\ r.audience = a.target_audience
                 /\ r.word_count = a.word_count
                 /\ Value(r.article) \in KickoffOutcomes
           /\ call.handler = "create_social_ui" =>
                 /\ r.topic = a.topic
                 /\ r.platforms = a.platforms.items
                 /\ TheCrew.tasks[2].description =
                       <<"Create social media posts about: ", Str(a.topic),
                         " Create posts for: ">> \o Join(r.platforms)
                 /\ Value(r.posts) \in KickoffOutcomes
           /\ call.handler = "optimize_content_ui" =>
                 /\ r.original_content = a.existing_content
                 /\ Value(r.optimized_content) \in KickoffOutcomes

C12_Witness ==
    /\ call.pc = "returned"
    /\ call.result # <<>>
    /\ call.handler = "create_article_ui"
    /\ call.result[1].word_count = 500
    /\ call.result[1].audience = "healthcare professionals"

\* the attribute of ContentAgency that holds the agent of each factory
AgencyField ==
    [f \in DOMAIN ROLE_HIERARCHY |->
        CASE f = "research_analyst" -> "researcher"
          [] f = "content_writer" -> "writer"
          [] f = "seo_specialist" -> "seo"
          [] f = "social_media_manager" -> "social"
          [] OTHER -> "qa"]

\* every agent of agency a has delegation disabled and uses a's llm
NoDelegation(a) ==
    \A f \in DOMAIN ROLE_HIERARCHY :
        /\ a[AgencyField[f]].allow_delegation = FALSE
        /\ a[AgencyField[f]].llm = a.llm

\* C13: every agent the five role factories produce, in roles.py and in
\* app.py, has delegation disabled and is bound to the llm given to the
\* factory, so no agent of any crew can delegate, although ROLE_HIERARCHY
\* lists delegates for content_writer, seo_specialist and
\* social_media_manager.
C13_NoAgentDelegates ==
    /\ ~agency.isNone => NoDelegation(agency)
    /\ ~call.self.isNone => NoDelegation(call.self)
    /\ \A c \in 1..Len(call.crews) :
          /\ \A i \in 1..Len(call.crews[c].agents) :
                ~call.crews[c].agents[i].allow_delegation
          /\ \A i \in 1..Len(call.crews[c].tasks) :
                /\ ~call.crews[c].tasks[i].agent.allow_delegation
                /\ call.crews[c].tasks[i].agent.llm = call.self.llm
    /\ {f \in DOMAIN ROLE_HIERARCHY : ROLE_HIERARCHY[f].delegates_to # <<>>}
          = {"content_writer", "seo_specialist", "social_media_manager"}

C13_Witness ==
    /\ ui = "app"
    /\ HasCrew("create_social_ui")
    /\ call.pc = "kickoff"
    /\ TheCrew.tasks[2].agent.role = "Social Media Manager"
    /\ ROLE_HIERARCHY.social_media_manager.delegates_to # <<>>
    /\ ~TheCrew.tasks[2].agent.allow_delegation

====
